---------------------------- MODULE Spec2Model ----------------------------
(***************************************************************************)
(* fareharbor_webhook_receiver.py: a webhook endpoint that classifies a    *)
(* booking into a boat type and increments the count cell of the matching  *)
(* (month, boat type) row of a report worksheet, logging every delivery to *)
(* a backup worksheet.                                                     *)
(*                                                                         *)
(* Strings are TLC strings (Len, SubSeq and \o apply to them).  A JSON     *)
(* value that the code calls .lower() on, or parses, is a record           *)
(* [t |-> "str" | "null" | "num" | "missing", s |-> <the string>], so that *)
(* a key that is absent, null or a number is told from a string.           *)
(*                                                                         *)
(* Each delivery is one invocation of receive_booking.  Deliveries are     *)
(* handled by independent workers that share only the remote spreadsheet,  *)
(* so their spreadsheet calls interleave; the code between two calls on    *)
(* the report worksheet is local and belongs to the step of the call that  *)
(* precedes it.  An exception that nothing catches ends the delivery in    *)
(* "raised".                                                               *)
(***************************************************************************)
EXTENDS Integers, Sequences, FiniteSets, TLC

VARIABLES
    grid,      \* worksheet TAB_NAME as get_all_values() returns it
    backup,    \* worksheet BACKUP_TAB_NAME as get_all_values() returns it
    pc,        \* pc[d]: where delivery d stands
    booking,   \* booking[d]: the booking dict receive_booking extracted
    loc,       \* loc[d]: update_google_sheet's locals
    hist,      \* hist[d]: what delivery d was seen to do (observation only)
    call       \* one invocation of detect_boat_type (SpecClassify)

vars == <<grid, backup, pc, booking, loc, hist, call>>

----------------------------------------------------------------------------
(* Strings                                                                 *)

RECURSIVE Lower(_)
RECURSIVE LStrip(_)
RECURSIVE RStrip(_)
RECURSIVE ParseDigits(_)

CharAt(s, i) == SubSeq(s, i, i)

UpperChars == <<"A","B","C","D","E","F","G","H","I","J","K","L","M",
                "N","O","P","Q","R","S","T","U","V","W","X","Y","Z">>
LowerChars == <<"a","b","c","d","e","f","g","h","i","j","k","l","m",
                "n","o","p","q","r","s","t","u","v","w","x","y","z">>

\* str.lower() of one character
LowerChar(c) ==
    IF \E i \in 1..26 : UpperChars[i] = c
    THEN LowerChars[CHOOSE i \in 1..26 : UpperChars[i] = c]
    ELSE c

\* str.lower()
Lower(s) ==
    IF Len(s) = 0 THEN ""
    ELSE LowerChar(CharAt(s, 1)) \o Lower(SubSeq(s, 2, Len(s)))

\* needle in hay (Python's substring test)
Contains(hay, needle) ==
    \E i \in 1..(Len(hay) - Len(needle) + 1) :
        SubSeq(hay, i, i + Len(needle) - 1) = needle

\* any(word in combined for word in words)
AnyIn(words, combined) == \E i \in DOMAIN words : Contains(combined, words[i])

IsSpace(c) == c = " "

LStrip(s) ==
    IF Len(s) > 0 /\ IsSpace(CharAt(s, 1)) THEN LStrip(SubSeq(s, 2, Len(s))) ELSE s

RStrip(s) ==
    IF Len(s) > 0 /\ IsSpace(CharAt(s, Len(s)))
    THEN RStrip(SubSeq(s, 1, Len(s) - 1)) ELSE s

\* str.strip()
Strip(s) == RStrip(LStrip(s))

AsciiDigits == <<"0","1","2","3","4","5","6","7","8","9">>

IsAsciiDigit(c) == \E i \in 1..10 : AsciiDigits[i] = c

\* str.isdigit() on ASCII text: non-empty and every character a digit
IsDigit(s) ==
    /\ Len(s) > 0
    /\ \A i \in 1..Len(s) : IsAsciiDigit(CharAt(s, i))

DigitVal(c) == (CHOOSE i \in 1..10 : AsciiDigits[i] = c) - 1

\* int(s) of a string of digits
ParseDigits(s) ==
    IF Len(s) = 0 THEN 0
    ELSE 10 * ParseDigits(SubSeq(s, 1, Len(s) - 1)) + DigitVal(CharAt(s, Len(s)))

\* The cell text of a small number written by update_cell
NumStr(n) ==
    IF n < 10 THEN AsciiDigits[n + 1]
    ELSE AsciiDigits[(n \div 10) + 1] \o AsciiDigits[(n % 10) + 1]

----------------------------------------------------------------------------
(* JSON values                                                             *)

Str(s)  == [t |-> "str", s |-> s]
Null    == [t |-> "null", s |-> ""]
Num     == [t |-> "num", s |-> ""]
Missing == [t |-> "missing", s |-> ""]

\* dict.get(key, default) with a string default
GetOr(v, default) == IF v.t = "missing" THEN Str(default) ELSE v

\* An entry of custom_field_values: a dict with the two keys, or not a dict
Field(value, display) == [kind |-> "dict", value |-> value, display_value |-> display]
NonDict == [kind |-> "other", value |-> Missing, display_value |-> Missing]

\* An entry of customers, by what
\* customer["customer_type_rate"]["customer_type"]["singular"] gives:
\* a value (string, null, number), KeyError or TypeError
Customer(singular) == [lookup |-> "value", singular |-> singular]
CustomerKeyError   == [lookup |-> "KeyError", singular |-> Missing]
CustomerTypeError  == [lookup |-> "TypeError", singular |-> Missing]

----------------------------------------------------------------------------
(* Boat type detection                                                     *)

SINGLE_KEYWORDS == <<"single">>
DOUBLE_KEYWORDS == <<"double", "tandem">>
SUP_KEYWORDS    == <<"sup", "paddleboard">>

Labels == {"Single", "Double", "SUP", "Unlisted"}

RECURSIVE FieldsText(_)
RECURSIVE CustomersText(_)

\* notes or ""
NotesOrEmpty(notes) ==
    IF notes.t \in {"null", "missing"} \/ (notes.t = "str" /\ notes.s = "")
    THEN Str("") ELSE notes

\* The loop over custom_fields: the text it adds to combined, or the
\* AttributeError of calling .lower() on a value that is not a string
FieldsText(fields) ==
    IF Len(fields) = 0 THEN ""
    ELSE LET f    == Head(fields)
             val  == GetOr(f.value, "")
             disp == GetOr(f.display_value, "")
             rest == FieldsText(Tail(fields))
         IN  IF f.kind # "dict" THEN rest
             ELSE IF val.t # "str" \/ disp.t # "str" THEN "AttributeError"
             ELSE IF rest = "AttributeError" THEN "AttributeError"
             ELSE " " \o Lower(val.s) \o " " \o Lower(disp.s) \o rest

\* The loop over customers: KeyError and TypeError are skipped, the
\* AttributeError of .lower() on a label that is not a string is not caught
CustomersText(customers) ==
    IF Len(customers) = 0 THEN ""
    ELSE LET c    == Head(customers)
             rest == CustomersText(Tail(customers))
         IN  IF c.lookup # "value" THEN rest
             ELSE IF c.singular.t # "str" THEN "AttributeError"
             ELSE IF rest = "AttributeError" THEN "AttributeError"
             ELSE " " \o Lower(c.singular.s) \o rest

ClassifySupFirst(combined) ==
    IF AnyIn(SUP_KEYWORDS, combined) THEN "SUP"
    ELSE IF AnyIn(SINGLE_KEYWORDS, combined) THEN "Single"
    ELSE IF AnyIn(DOUBLE_KEYWORDS, combined) THEN "Double"
    ELSE "Unlisted"

\* The if / elif chain over combined
Classify(combined) ==
    IF AnyIn(SINGLE_KEYWORDS, combined) THEN "Single"
    ELSE IF AnyIn(DOUBLE_KEYWORDS, combined) THEN "Double"
    ELSE IF AnyIn(SUP_KEYWORDS, combined) THEN "SUP"
    ELSE "Unlisted"

\* detect_boat_type(notes, custom_fields, customers): a label, or the
\* exception it raises
detect_boat_type(notes, custom_fields, customers) ==
    LET n  == NotesOrEmpty(notes)
        ft == FieldsText(custom_fields)
        ct == CustomersText(customers)
    IN  IF n.t # "str" THEN "AttributeError"
        ELSE IF ft = "AttributeError" THEN "AttributeError"
        ELSE IF ct = "AttributeError" THEN "AttributeError"
        ELSE Classify(Lower(n.s) \o ft \o ct)

----------------------------------------------------------------------------
(* One invocation of detect_boat_type on inputs drawn from bounded sets    *)

NotesInputs ==
    { Null, Str(""), Str("Single kayak"), Str("TANDEM please"), Str("sup"),
      Str("Tandem kayak, paddleboard option"), Str("single + SUP"),
      Str("sin"), Str("Canoe") }

FieldsInputs ==
    { <<>>,
      <<Field(Str("gle"), Missing)>>,
      <<Field(Str("Double"), Str("2 seats"))>>,
      <<NonDict, Field(Missing, Str("Paddleboard"))>>,
      <<Field(Str("kayak"), Str("Tan")), Field(Str("dem"), Str("x"))>>,
      <<Field(Null, Str("Single"))>>,
      <<Field(Str("SUP"), Null)>>,
      <<Field(Num, Missing)>> }

CustomersInputs ==
    { <<>>,
      <<Customer(Str("Single Kayak"))>>,
      <<CustomerKeyError, Customer(Str("Adult"))>>,
      <<CustomerTypeError, Customer(Str("Stand Up Paddleboard"))>>,
      <<Customer(Null)>> }

NoCall == [notes |-> Null, custom_fields |-> <<>>, customers |-> <<>>,
           result |-> "none"]

----------------------------------------------------------------------------
(* Dates: datetime.fromisoformat and strftime("%b %Y")                     *)

AllDigits(s, i, j) == \A k \in i..j : IsAsciiDigit(CharAt(s, k))

IsLeap(y) == (y % 4 = 0 /\ y % 100 # 0) \/ y % 400 = 0

DaysIn(y, m) ==
    IF m = 2 THEN (IF IsLeap(y) THEN 29 ELSE 28)
    ELSE IF m \in {4, 6, 9, 11} THEN 30 ELSE 31

\* "hh:mm" at position i of s, within range
ClockOk(s, i, maxh) ==
    /\ AllDigits(s, i, i + 1) /\ CharAt(s, i + 2) = ":" /\ AllDigits(s, i + 3, i + 4)
    /\ ParseDigits(SubSeq(s, i, i + 1)) <= maxh
    /\ ParseDigits(SubSeq(s, i + 3, i + 4)) <= 59

\* The time part: HH:MM or HH:MM:SS, then nothing or a +HH:MM / -HH:MM offset
\* (fractional seconds are not among the inputs)
TimeOk(t) ==
    LET n    == Len(t)
        secs == n \in {8, 14}
        hm   == IF secs THEN 8 ELSE 5
    IN  /\ n \in {5, 8, 11, 14}
        /\ ClockOk(t, 1, 23)
        /\ secs => /\ CharAt(t, 6) = ":" /\ AllDigits(t, 7, 8)
                   /\ ParseDigits(SubSeq(t, 7, 8)) <= 59
        /\ n > hm => /\ CharAt(t, hm + 1) \in {"+", "-"}
                     /\ ClockOk(t, hm + 2, 23)

\* Whether datetime.fromisoformat(s) returns (it raises ValueError otherwise):
\* YYYY-MM-DD, alone or followed by one separator character and a time
IsoOk(s) ==
    /\ Len(s) >= 10
    /\ AllDigits(s, 1, 4) /\ CharAt(s, 5) = "-"
    /\ AllDigits(s, 6, 7) /\ CharAt(s, 8) = "-"
    /\ AllDigits(s, 9, 10)
    /\ LET y == ParseDigits(SubSeq(s, 1, 4))
           m == ParseDigits(SubSeq(s, 6, 7))
           d == ParseDigits(SubSeq(s, 9, 10))
       IN  y >= 1 /\ m \in 1..12 /\ d >= 1 /\ d <= DaysIn(y, m)
    /\ Len(s) > 10 => Len(s) >= 12 /\ TimeOk(SubSeq(s, 12, Len(s)))

MonthAbbr == <<"Jan", "Feb", "Mar", "Apr", "May", "Jun",
               "Jul", "Aug", "Sep", "Oct", "Nov", "Dec">>

\* date.strftime("%b %Y") of the parsed timestamp: its own calendar date,
\* no timezone conversion
MonthLabel(s) == MonthAbbr[ParseDigits(SubSeq(s, 6, 7))] \o " " \o SubSeq(s, 1, 4)

----------------------------------------------------------------------------
(* Configuration, payloads and worksheets                                  *)

TARGET_ITEMS == <<"Sunset Bat Tours", "Downtown to Barton Springs Tour",
                  "Kayak and SUP Reservations">>

\* item_name in TARGET_ITEMS: list membership by string equality
InTargetItems(name) == name.t = "str" /\ \E i \in DOMAIN TARGET_ITEMS : TARGET_ITEMS[i] = name.s

headers == <<"Timestamp (UTC)", "Product Name", "Start Date", "Detected Boat Type",
             "Notes", "Custom Field Values", "Logged?", "Failure Reason">>

\* The number of deliveries the model follows
MaxDeliveries == 2

Deliveries == 1..MaxDeliveries

\* A booking dict whose "availability" and "item" are dicts
Booking(name, start_at, note, fields, customers) ==
    [availability |-> "dict", item |-> "dict", name |-> name, start_at |-> start_at,
     note |-> note, custom_field_values |-> fields, customers |-> customers]

\* {}: what payload.get("booking", {}) gives a payload without that key
EmptyBooking ==
    [availability |-> "missing", item |-> "missing", name |-> Missing,
     start_at |-> Missing, note |-> Missing, custom_field_values |-> <<>>,
     customers |-> <<>>]

Payload(b) == [kind |-> "object", has_booking |-> TRUE, booking |-> b]

\* The flat shape: product, date and notes at the top level, no "booking" key
FlatPayload == [kind |-> "object", has_booking |-> FALSE, booking |-> EmptyBooking]

\* A JSON document that is not an object
ArrayPayload == [kind |-> "array", has_booking |-> FALSE, booking |-> EmptyBooking]

Payloads ==
    { Payload(Booking(Str("Sunset Bat Tours"), Str("2025-10-05T09:00:00"),
                      Str("Single kayak"), <<>>, <<>>)),
      Payload(Booking(Str("Kayak and SUP Reservations"), Str("2025-10-05T17:30:00-05:00"),
                      Null, <<Field(Str("Tandem"), Str("Paddleboard"))>>,
                      <<Customer(Str("Adult")), CustomerKeyError>>)),
      Payload(Booking(Str("Sunset Bat Tours"), Str("2025-11-02T10:00:00"),
                      Str("Paddleboard / SUP"), <<>>, <<>>)),
      Payload(Booking(Str("sunset bat tours"), Str("2025-10-05T09:00:00"),
                      Str("Single kayak"), <<>>, <<>>)),
      FlatPayload,
      Payload(Booking(Str("Sunset Bat Tours"), Missing, Str("Single kayak"), <<>>, <<>>)),
      Payload(Booking(Str("Downtown to Barton Springs Tour"), Str("10/05/2025"),
                      Missing, <<>>, <<>>)),
      Payload(Booking(Str("Sunset Bat Tours"), Str("2025-10-05T09:00:00"),
                      Str(""), <<Field(Null, Str("Single"))>>, <<>>)),
      Payload(Booking(Str("Sunset Bat Tours"), Null, Str("Single kayak"), <<>>, <<>>)),
      Payload([EmptyBooking EXCEPT !.availability = "null"]),
      Payload([EmptyBooking EXCEPT !.availability = "dict", !.item = "null"]),
      ArrayPayload }

\* The report worksheet as get_all_values() returns it: a rectangle of cell
\* texts, header row first; the count is the fourth column
WideGrid ==
    << <<"Month", "Boat Type", "Item", "Count">>,
       <<"Sep 2025", "Single", "Kayak", "12">>,
       <<"Oct 2025", "Single", "Kayak", "3">>,
       <<" Oct 2025 ", "Double ", "Kayak", "">>,
       <<"Oct 2025", "Single", "Kayak", "7">>,
       <<"Oct 2025", "SUP", "Board", "n/a">> >>

\* A report whose fourth column holds nothing yet: rows of three cells
NarrowGrid ==
    << <<"Month", "Boat Type", "Item">>,
       <<"Oct 2025", "Single", "Kayak">>,
       <<"Oct 2025", "Double", "Kayak">> >>

\* A report with a single column: rows of one cell
ColumnGrid == << <<"Month">>, <<"Oct 2025">> >>

InitGrids == {WideGrid, NarrowGrid, ColumnGrid}

OldRecord(ts, logged, error) ==
    <<ts, "Sunset Bat Tours", "2025-09-01T09:00:00", "Single", "", "[]", logged, error>>

\* The backup worksheet: empty, header only, header and records, records
\* under a header that differs from the expected one, records and no header
InitBackups ==
    { <<>>,
      <<headers, OldRecord("T-2", "Yes", ""), OldRecord("T-1", "No", "Invalid start date")>>,
      << [headers EXCEPT ![1] = "Timestamp"], OldRecord("T-2", "Yes", ""),
         OldRecord("T-1", "No", "Invalid start date") >>,
      << OldRecord("T-2", "Yes", ""), OldRecord("T-1", "No", "Invalid start date") >> }

----------------------------------------------------------------------------
(* Backup logging                                                          *)

RECURSIVE JsonItems(_)

\* json.dumps of a value
JsonValue(v) ==
    IF v.t = "str" THEN "\"" \o v.s \o "\""
    ELSE IF v.t = "null" THEN "null" ELSE "1"

\* json.dumps of an entry of custom_field_values (an entry that is not a
\* dict is taken to be the string "n/a")
JsonField(f) ==
    IF f.kind # "dict" THEN "\"n/a\""
    ELSE LET val  == IF f.value.t = "missing" THEN ""
                     ELSE "\"value\": " \o JsonValue(f.value)
             disp == IF f.display_value.t = "missing" THEN ""
                     ELSE "\"display_value\": " \o JsonValue(f.display_value)
             sep  == IF val # "" /\ disp # "" THEN ", " ELSE ""
         IN  "{" \o val \o sep \o disp \o "}"

JsonItems(fields) ==
    IF Len(fields) = 0 THEN ""
    ELSE JsonField(Head(fields)) \o (IF Len(fields) > 1 THEN ", " ELSE "")
         \o JsonItems(Tail(fields))

\* json.dumps(data.get("custom_fields", []))
JsonDumps(fields) == "[" \o JsonItems(fields) \o "]"

\* The text of a value in an f-string
FormatText(v) == IF v.t = "str" THEN v.s ELSE IF v.t = "null" THEN "None" ELSE "1"

\* The text get_all_values() returns for a value append_row wrote
CellText(v) == IF v.t = "str" THEN v.s ELSE IF v.t = "num" THEN "1" ELSE ""

\* The row log_to_backup_sheet appends for data
LogRow(data) ==
    << data.timestamp, CellText(data.product_name), CellText(data.start_date),
       data.boat_type, CellText(data.notes), JsonDumps(data.custom_fields),
       data.logged, data.error >>

\* existing after backup_ws.resize(rows=1): the first row is all that is kept
Resized(existing) == IF Len(existing) = 0 THEN <<>> ELSE <<existing[1]>>

\* existing after backup_ws.insert_row(row, index=1)
InsertedFirst(existing, row) == <<row>> \o existing

\* if not existing or existing[0] != headers
HeaderNeeded(existing) == IF Len(existing) = 0 THEN TRUE ELSE existing[1] # headers

\* The spreadsheet calls log_to_backup_sheet makes, in order
BackupCalls == <<"open", "get_all_values", "resize", "insert_row", "append_row">>

\* The backup worksheet after log_to_backup_sheet(data) whose call failAt
\* raises ("none": no call raises); the calls before it have taken effect
BackupAfter(existing, data, failAt) ==
    LET fixed == IF HeaderNeeded(existing)
                 THEN InsertedFirst(Resized(existing), headers) ELSE existing
    IN  CASE failAt \in {"open", "get_all_values", "resize"} -> existing
          [] failAt = "insert_row" -> Resized(existing)
          [] failAt = "append_row" -> fixed
          [] OTHER -> Append(fixed, LogRow(data))

----------------------------------------------------------------------------
(* State                                                                   *)

NoLogData ==
    [timestamp |-> "", start_date |-> Missing, notes |-> Missing,
     custom_fields |-> <<>>, product_name |-> Missing, logged |-> "",
     boat_type |-> "", error |-> ""]

NoLocals ==
    [log_data |-> NoLogData, month |-> "", boat_type |-> "", data |-> <<>>,
     row_idx |-> 0, current_val |-> 0]

\* What a delivery was seen to do: the worksheets when it arrived and when it
\* ended, whether another delivery was in flight with it, the calls it made
NoHist ==
    [solo |-> TRUE, gridBefore |-> <<>>, backupBefore |-> <<>>,
     gridAfter |-> <<>>, backupAfter |-> <<>>,
     opened |-> FALSE, classified |-> FALSE, read |-> FALSE,
     backupOpened |-> FALSE, writes |-> <<>>, appended |-> <<>>]

Ended(d) == pc[d] \in {"done", "raised"}

InFlight(d) == pc[d] \notin {"pending", "done", "raised"}

Init ==
    /\ grid \in InitGrids
    /\ backup \in InitBackups
    /\ pc = [d \in Deliveries |-> "pending"]
    /\ booking = [d \in Deliveries |-> EmptyBooking]
    /\ loc = [d \in Deliveries |-> NoLocals]
    /\ hist = [d \in Deliveries |-> NoHist]
    /\ call = NoCall

\* hist with delivery d ended on worksheets g and b
EndedHist(h, d, g, b) ==
    [h EXCEPT ![d].gridAfter = g, ![d].backupAfter = b]

----------------------------------------------------------------------------
(* receive_booking and update_google_sheet                                 *)

\* booking_data.get("availability", {}).get("start_at", "")
StartAt(b) == IF b.availability = "dict" THEN GetOr(b.start_at, "") ELSE Str("")

\* booking_data.get("availability", {}).get("item", {}).get("name", "")
ItemName(b) ==
    IF b.availability = "dict" /\ b.item = "dict" THEN GetOr(b.name, "") ELSE Str("")

\* Whether building log_data and item_name raises AttributeError: .get on
\* an "availability" or an "item" that is null
LookupRaises(b) ==
    b.availability = "null" \/ (b.availability = "dict" /\ b.item = "null")

\* datetime.utcnow().isoformat() of delivery d: one text per delivery
Timestamp(d) == "T" \o NumStr(d)

\* receive_booking up to the first spreadsheet call: the booking is taken
\* from the payload, log_data and item_name are built
Receive(d, p) ==
    /\ pc[d] = "pending"
    /\ d > 1 => pc[d - 1] # "pending"
    /\ LET b      == IF p.has_booking THEN p.booking ELSE EmptyBooking
           raises == p.kind # "object" \/ LookupRaises(b)
           data   == [NoLogData EXCEPT
                         !.timestamp = Timestamp(d),
                         !.start_date = StartAt(b),
                         !.notes = GetOr(b.note, ""),
                         !.custom_fields = b.custom_field_values,
                         !.product_name = ItemName(b)]
           others == \E e \in Deliveries \ {d} : InFlight(e)
           h      == [e \in Deliveries |->
                        IF e = d
                        THEN [NoHist EXCEPT !.solo = ~others, !.gridBefore = grid,
                                            !.backupBefore = backup]
                        ELSE IF InFlight(e) THEN [hist[e] EXCEPT !.solo = FALSE]
                        ELSE hist[e]]
       IN  /\ booking' = [booking EXCEPT ![d] = b]
           /\ IF raises
              THEN /\ pc' = [pc EXCEPT ![d] = "raised"]
                   /\ loc' = loc
                   /\ hist' = EndedHist(h, d, grid, backup)
              ELSE /\ pc' = [pc EXCEPT ![d] = "open"]
                   /\ loc' = [loc EXCEPT ![d].log_data = data]
                   /\ hist' = h
    /\ UNCHANGED <<grid, backup, call>>

\* log_data marked as not logged, for error
Rejected(data, boat_type, error) ==
    [data EXCEPT !.logged = "No", !.boat_type = boat_type, !.error = error]

\* GC.open(SPREADSHEET_NAME).worksheet(TAB_NAME) and the code up to
\* worksheet.get_all_values(): the item filter, the date, the boat type
OpenSheet(d, ok) ==
    /\ pc[d] = "open"
    /\ LET data  == loc[d].log_data
           name  == data.product_name
           start == data.start_date
           boat  == detect_boat_type(data.notes, data.custom_fields,
                                     booking[d].customers)
           h     == [hist EXCEPT ![d].opened = ok]
       IN  IF ~ok
           THEN /\ loc' = [loc EXCEPT ![d].log_data =
                             Rejected(data, "N/A", "Sheet error: WorksheetNotFound")]
                /\ pc' = [pc EXCEPT ![d] = "log"]
                /\ hist' = h
           ELSE IF ~InTargetItems(name)
           THEN /\ loc' = [loc EXCEPT ![d].log_data =
                             Rejected(data, "N/A",
                                      "Item not in TARGET_ITEMS: " \o FormatText(name))]
                /\ pc' = [pc EXCEPT ![d] = "log"]
                /\ hist' = h
           ELSE IF start.t # "str"
           THEN \* fromisoformat raises TypeError, which is not caught
                /\ loc' = loc
                /\ pc' = [pc EXCEPT ![d] = "raised"]
                /\ hist' = EndedHist(h, d, grid, backup)
           ELSE IF ~IsoOk(start.s)
           THEN /\ loc' = [loc EXCEPT ![d].log_data =
                             Rejected(data, "N/A", "Invalid start date")]
                /\ pc' = [pc EXCEPT ![d] = "log"]
                /\ hist' = h
           ELSE IF boat \notin Labels
           THEN \* detect_boat_type raised
                /\ loc' = [loc EXCEPT ![d].month = MonthLabel(start.s)]
                /\ pc' = [pc EXCEPT ![d] = "raised"]
                /\ hist' = EndedHist([h EXCEPT ![d].classified = TRUE], d, grid, backup)
           ELSE /\ loc' = [loc EXCEPT ![d].month = MonthLabel(start.s),
                                      ![d].boat_type = boat,
                                      ![d].log_data.boat_type = boat]
                /\ pc' = [pc EXCEPT ![d] = "read"]
                /\ hist' = [h EXCEPT ![d].classified = TRUE]
    /\ UNCHANGED <<grid, backup, booking, call>>


\* The rows of data (sheet row numbers, the header being row 1) the loop
\* over range(1, len(data)) matches: at least two cells, and the trimmed
\* month and boat type equal
MatchingRows(data, month, boat_type) ==
    { r \in 2..Len(data) :
        /\ Len(data[r]) >= 2
        /\ Strip(data[r][1]) = month
        /\ Strip(data[r][2]) = boat_type }

\* row_idx + 1 of the first matching row, 0 when the loop ends without one
FirstMatch(data, month, boat_type) ==
    LET rows == MatchingRows(data, month, boat_type)
    IN  IF rows = {} THEN 0 ELSE CHOOSE r \in rows : \A q \in rows : r <= q

\* int(current) if current.isdigit() else 0, for current = row[3].strip()
CurrentVal(cell) ==
    LET current == Strip(cell)
    IN  IF IsDigit(current) THEN ParseDigits(current) ELSE 0

\* worksheet.get_all_values() and the loop up to worksheet.update_cell
ReadRows(d, ok) ==
    /\ pc[d] = "read"
    /\ LET r == FirstMatch(grid, loc[d].month, loc[d].boat_type)
           h == [hist EXCEPT ![d].read = TRUE]
       IN  IF ~ok
           THEN \* the call raises, nothing catches it
                /\ loc' = loc
                /\ pc' = [pc EXCEPT ![d] = "raised"]
                /\ hist' = EndedHist(h, d, grid, backup)
           ELSE IF r = 0
           THEN /\ loc' = [loc EXCEPT ![d].data = grid,
                             ![d].log_data.logged = "No",
                             ![d].log_data.error =
                                 "No matching row for " \o loc[d].boat_type
                                 \o " in " \o loc[d].month]
                /\ pc' = [pc EXCEPT ![d] = "log"]
                /\ hist' = h
           ELSE IF Len(grid[r]) < 4
           THEN \* row[3] raises IndexError
                /\ loc' = [loc EXCEPT ![d].data = grid, ![d].row_idx = r]
                /\ pc' = [pc EXCEPT ![d] = "raised"]
                /\ hist' = EndedHist(h, d, grid, backup)
           ELSE /\ loc' = [loc EXCEPT ![d].data = grid, ![d].row_idx = r,
                                      ![d].current_val = CurrentVal(grid[r][4])]
                /\ pc' = [pc EXCEPT ![d] = "write"]
                /\ hist' = h
    /\ UNCHANGED <<grid, backup, booking, call>>

\* An increment of the cell as it stands at the time of the write
NewCountOfCell(current_val, cell) == CurrentVal(cell) + 1

\* The value update_cell is given: the count read earlier plus one; the text
\* the cell holds at the time of the write is not consulted
NewCount(current_val, cell) == current_val + 1

\* worksheet.update_cell(row_idx + 1, 4, current_val + 1) and the two
\* assignments to log_data after it
UpdateCell(d, ok) ==
    /\ pc[d] = "write"
    /\ LET r   == loc[d].row_idx
           new == NumStr(NewCount(loc[d].current_val, grid[r][4]))
       IN  IF ~ok
           THEN /\ grid' = grid
                /\ loc' = loc
                /\ pc' = [pc EXCEPT ![d] = "raised"]
                /\ hist' = EndedHist(hist, d, grid, backup)
           ELSE /\ grid' = [grid EXCEPT ![r][4] = new]
                /\ loc' = [loc EXCEPT ![d].log_data.logged = "Yes",
                                      ![d].log_data.error = ""]
                /\ pc' = [pc EXCEPT ![d] = "log"]
                /\ hist' = [hist EXCEPT ![d].writes =
                              Append(@, [row |-> r, old |-> grid[r][4], new |-> new])]
    /\ UNCHANGED <<backup, booking, call>>

\* log_to_backup_sheet(log_data) and the return that follows it: the call
\* failAt raises ("none": none does).  A failure to open the worksheet is
\* caught and the function returns; any other is not caught.
LogToBackup(d, failAt) ==
    /\ pc[d] = "log"
    /\ failAt \in {"resize", "insert_row"} => HeaderNeeded(backup)
    /\ LET b == BackupAfter(backup, loc[d].log_data, failAt)
           h == [hist EXCEPT
                   ![d].backupOpened = failAt # "open",
                   ![d].appended = IF failAt = "none"
                                   THEN Append(@, LogRow(loc[d].log_data)) ELSE @]
       IN  /\ backup' = b
           /\ pc' = [pc EXCEPT ![d] = IF failAt \in {"open", "none"}
                                      THEN "done" ELSE "raised"]
           /\ hist' = EndedHist(h, d, grid, b)
    /\ UNCHANGED <<grid, booking, loc, call>>

Next ==
    \E d \in Deliveries :
        \/ \E p \in Payloads : Receive(d, p)
        \/ \E ok \in BOOLEAN : OpenSheet(d, ok)
        \/ \E ok \in BOOLEAN : ReadRows(d, ok)
        \/ \E ok \in BOOLEAN : UpdateCell(d, ok)
        \/ \E i \in DOMAIN BackupCalls : LogToBackup(d, BackupCalls[i])
        \/ LogToBackup(d, "none")

Spec == Init /\ [][Next]_vars

----------------------------------------------------------------------------
(* detect_boat_type on its own                                             *)

InitClassify ==
    /\ grid = WideGrid
    /\ backup = <<>>
    /\ pc = [d \in Deliveries |-> "pending"]
    /\ booking = [d \in Deliveries |-> EmptyBooking]
    /\ loc = [d \in Deliveries |-> NoLocals]
    /\ hist = [d \in Deliveries |-> NoHist]
    /\ \E n \in NotesInputs, f \in FieldsInputs, c \in CustomersInputs :
          call = [notes |-> n, custom_fields |-> f, customers |-> c,
                  result |-> "none"]

Detect ==
    /\ call.result = "none"
    /\ call' = [call EXCEPT !.result =
                  detect_boat_type(call.notes, call.custom_fields, call.customers)]
    /\ UNCHANGED <<grid, backup, pc, booking, loc, hist>>

NextClassify == Detect

SpecClassify == InitClassify /\ [][NextClassify]_vars

----------------------------------------------------------------------------
(* Deliveries of tracked bookings with a start date that parses, on the    *)
(* wide report: the deliveries that reach update_cell                      *)

RacePayloads ==
    { p \in Payloads :
        /\ p.kind = "object" /\ p.has_booking /\ ~LookupRaises(p.booking)
        /\ InTargetItems(ItemName(p.booking))
        /\ StartAt(p.booking).t = "str" /\ IsoOk(StartAt(p.booking).s)
        /\ detect_boat_type(GetOr(p.booking.note, ""), p.booking.custom_field_values,
                            p.booking.customers) \in Labels }

InitRace ==
    /\ grid = WideGrid
    /\ backup = <<headers, OldRecord("T-1", "Yes", "")>>
    /\ pc = [d \in Deliveries |-> "pending"]
    /\ booking = [d \in Deliveries |-> EmptyBooking]
    /\ loc = [d \in Deliveries |-> NoLocals]
    /\ hist = [d \in Deliveries |-> NoHist]
    /\ call = NoCall

NextRace ==
    \E d \in Deliveries :
        \/ \E p \in RacePayloads : Receive(d, p)
        \/ \E ok \in BOOLEAN : OpenSheet(d, ok)
        \/ \E ok \in BOOLEAN : ReadRows(d, ok)
        \/ \E ok \in BOOLEAN : UpdateCell(d, ok)
        \/ \E i \in DOMAIN BackupCalls : LogToBackup(d, BackupCalls[i])
        \/ LogToBackup(d, "none")

SpecRace == InitRace /\ [][NextRace]_vars

----------------------------------------------------------------------------
(* Properties                                                              *)

RECURSIVE IsSubseq(_, _)

\* Whether the elements of a occur in b in the same order
IsSubseq(a, b) ==
    IF Len(a) = 0 THEN TRUE
    ELSE IF Len(b) = 0 THEN FALSE
    ELSE IF Head(a) = Head(b) THEN IsSubseq(Tail(a), Tail(b))
    ELSE IsSubseq(a, Tail(b))

\* The audit records of a backup worksheet: its rows that say whether the
\* booking was logged (a header row says "Logged?" there)
AuditRecords(b) == SelectSeq(b, LAMBDA row : row[7] \in {"Yes", "No"})

\* The count cell of row r of worksheet g, blank when the row has no
\* fourth cell
CountCell(g, r) == IF Len(g[r]) >= 4 THEN g[r][4] ELSE ""

\* Worksheets g and h hold the same cells, the count cell of row r apart
\* (r = 0: no cell apart)
SameButCount(g, h, r) ==
    /\ Len(g) = Len(h)
    /\ \A i \in 1..Len(g) :
          IF i = r
          THEN /\ Len(h[i]) >= 3 /\ Len(g[i]) >= 3
               /\ SubSeq(h[i], 1, 3) = SubSeq(g[i], 1, 3)
               /\ \A k \in 5..Len(g[i]) : Len(h[i]) >= k /\ h[i][k] = g[i][k]
          ELSE h[i] = g[i]

\* Delivery d got as far as building log_data and item_name
Built(d) == pc[d] # "pending" /\ loc[d].log_data.timestamp # ""

Tracked(d) == InTargetItems(ItemName(booking[d]))

DateIsText(d) == StartAt(booking[d]).t = "str"

DateParses(d) == DateIsText(d) /\ IsoOk(StartAt(booking[d]).s)

\* The boat type of delivery d's booking, where detect_boat_type gives one
BoatOf(d) ==
    detect_boat_type(GetOr(booking[d].note, ""), booking[d].custom_field_values,
                     booking[d].customers)

MonthOf(d) == MonthLabel(StartAt(booking[d]).s)

\* get_all_values() returned the rows of the report to delivery d
RowsRead(d) == Len(loc[d].data) > 0

\* C1: every delivery that has ended either incremented the count of one
\* report row by exactly 1, or appended exactly one audit record with
\* logged = "No" and a failure reason.
C1_IncrementOrAuditRecord ==
    \A d \in Deliveries :
        Ended(d) =>
            LET w == hist[d].writes
                a == hist[d].appended
            IN  \/ /\ Len(w) = 1
                   /\ CurrentVal(w[1].new) = CurrentVal(w[1].old) + 1
                \/ /\ Len(w) = 0
                   /\ Len(a) = 1
                   /\ a[1][7] = "No"
                   /\ a[1][8] # ""

\* C2: no delivery ends with an exception propagating out of the handler:
\* every delivery that ends returns {"status": "received"}.
C2_AlwaysReceived == \A d \in Deliveries : pc[d] # "raised"

\* The conclusion of C4 for delivery d and row r of the report it found
IncrementedOnly(d, r) ==
    LET g  == hist[d].gridBefore
        g2 == hist[d].gridAfter
    IN  /\ SameButCount(g, g2, r)
        /\ CountCell(g2, r) = NumStr(CurrentVal(CountCell(g, r)) + 1)
        /\ \A i \in DOMAIN hist[d].appended : hist[d].appended[i][7] # "No"

\* C4: a delivery handled alone, of a tracked item with a start date that
\* parses, to which the report worksheet returned rows of which one matches
\* the month label and the boat type, ends with the count cell of the first
\* such row at its previous value (blank or non-numeric: 0) plus 1, every
\* other cell as before, and no audit record with logged = "No".
C4_MatchingRowIncremented ==
    \A d \in Deliveries :
        ( /\ Ended(d) /\ Built(d) /\ hist[d].solo /\ RowsRead(d)
          /\ Tracked(d) /\ DateParses(d) /\ BoatOf(d) \in Labels
          /\ FirstMatch(hist[d].gridBefore, MonthOf(d), BoatOf(d)) # 0 )
        => IncrementedOnly(d, FirstMatch(hist[d].gridBefore, MonthOf(d), BoatOf(d)))

\* The conclusion of C5 for delivery d
OneNoMatchRecord(d) ==
    /\ hist[d].gridAfter = hist[d].gridBefore
    /\ Len(hist[d].writes) = 0
    /\ Len(hist[d].appended) = 1
    /\ hist[d].appended[1][7] = "No"
    /\ Contains(hist[d].appended[1][8], BoatOf(d))
    /\ Contains(hist[d].appended[1][8], MonthOf(d))

\* C5: a delivery handled alone, of a tracked item with a start date that
\* parses, to which the report worksheet returned rows of which none matches
\* the month label and the boat type, and which opened the backup worksheet,
\* ends with every cell of the report as before and exactly one audit record
\* appended, with logged = "No" and a reason that names the boat type and
\* the month.
C5_NoMatchOneAuditRecord ==
    \A d \in Deliveries :
        ( /\ Ended(d) /\ Built(d) /\ hist[d].solo /\ RowsRead(d)
          /\ hist[d].backupOpened
          /\ Tracked(d) /\ DateParses(d) /\ BoatOf(d) \in Labels
          /\ FirstMatch(hist[d].gridBefore, MonthOf(d), BoatOf(d)) = 0 )
        => OneNoMatchRecord(d)

\* C6: the audit records that were in the backup worksheet when a delivery
\* arrived are all there when it has returned, unchanged and in the same
\* order.
C6_AuditLogAppendOnly ==
    \A d \in Deliveries :
        pc[d] = "done" => IsSubseq(AuditRecords(hist[d].backupBefore),
                                   AuditRecords(hist[d].backupAfter))

\* The conclusion of C9 for delivery d
RejectedUntracked(d) ==
    /\ Contains(loc[d].log_data.error, "Item not in TARGET_ITEMS")
    /\ ~hist[d].read
    /\ Len(hist[d].writes) = 0
    /\ Len(hist[d].appended) = 1
    /\ hist[d].appended[1][7] = "No"

\* C9: a delivery whose item name is not one of TARGET_ITEMS, and which
\* opened the report and the backup worksheet, ends rejected with the reason
\* that the item is not tracked, without the rows of the report having been
\* read, with no count cell written, and with one audit record with
\* logged = "No" appended.
C9_UntrackedItemRejected ==
    \A d \in Deliveries :
        ( /\ Ended(d) /\ Built(d) /\ ~Tracked(d)
          /\ hist[d].opened /\ hist[d].backupOpened )
        => RejectedUntracked(d)

\* The conclusion of C10 for delivery d
RejectedInvalidDate(d) ==
    /\ pc[d] = "done"
    /\ loc[d].log_data.error = "Invalid start date"
    /\ ~hist[d].classified
    /\ ~hist[d].read
    /\ Len(hist[d].writes) = 0

\* C10: a delivery of a tracked item whose start date is a string that does
\* not parse, and which opened the report worksheet, returns
\* {"status": "received"}, rejected with the reason "Invalid start date",
\* with no boat type detected, no rows read and no count cell written.
C10_InvalidDateRejected ==
    \A d \in Deliveries :
        ( /\ Ended(d) /\ Built(d) /\ Tracked(d) /\ DateIsText(d) /\ ~DateParses(d)
          /\ hist[d].opened )
        => RejectedInvalidDate(d)

\* Delivery d wrote the count cell of row r
WroteRow(d, r) == Len(hist[d].writes) = 1 /\ hist[d].writes[1].row = r

\* C3: two deliveries that read the same count c of a row and both wrote
\* it leave c + 1 in the cell, not c + 2, when no third delivery wrote that
\* row: each write stores the count its delivery read plus one, whatever
\* the cell holds by then.
C3_RaceLosesUpdate ==
    \A d1, d2 \in Deliveries :
        \A r \in 2..Len(grid) :
            ( /\ d1 # d2
              /\ WroteRow(d1, r) /\ WroteRow(d2, r)
              /\ loc[d1].current_val = loc[d2].current_val
              /\ \A e \in Deliveries \ {d1, d2} : ~WroteRow(e, r) )
            => grid[r][4] = NumStr(loc[d1].current_val + 1)

\* C3, reached: two deliveries have both returned with logged = "Yes" for
\* the same row, having read the same count, and the cell holds that count
\* plus one.
C3_LostUpdateReached ==
    \E d1, d2 \in Deliveries :
        \E r \in 2..Len(grid) :
            /\ d1 # d2
            /\ pc[d1] = "done" /\ pc[d2] = "done"
            /\ loc[d1].log_data.logged = "Yes" /\ loc[d2].log_data.logged = "Yes"
            /\ WroteRow(d1, r) /\ WroteRow(d2, r)
            /\ loc[d1].current_val = loc[d2].current_val
            /\ CurrentVal(hist[d1].gridBefore[r][4]) = loc[d1].current_val
            /\ CurrentVal(hist[d2].gridBefore[r][4]) = loc[d1].current_val
            /\ grid[r][4] = NumStr(loc[d1].current_val + 1)

\* C7: detect_boat_type returns one of the four labels on every input.
C7_DetectTotal == call.result # "none" => call.result \in Labels

\* No value, display value or customer type label is present and not a
\* string; entries that are not dicts, or lack the label, are allowed
WellFormed(notes, fields, customers) ==
    /\ notes.t \in {"str", "null"}
    /\ \A i \in DOMAIN fields :
          fields[i].kind = "dict" =>
              /\ fields[i].value.t \in {"str", "missing"}
              /\ fields[i].display_value.t \in {"str", "missing"}
    /\ \A i \in DOMAIN customers :
          customers[i].lookup = "value" => customers[i].singular.t = "str"

\* The texts the classification is over, each in lower case
Texts(notes, fields, customers) ==
    {Lower(notes.s)}
    \cup {Lower(fields[i].value.s) : i \in {j \in DOMAIN fields : fields[j].kind = "dict"}}
    \cup {Lower(fields[i].display_value.s) :
             i \in {j \in DOMAIN fields : fields[j].kind = "dict"}}
    \cup {Lower(customers[i].singular.s) :
             i \in {j \in DOMAIN customers : customers[j].lookup = "value"}}

\* Some text holds one of the words
Mentions(texts, words) ==
    \E t \in texts : \E i \in DOMAIN words : Contains(t, words[i])

\* The strict-priority reference: Single, else Double, else SUP, else Unlisted
Reference(notes, fields, customers) ==
    LET texts == Texts(notes, fields, customers)
    IN  IF Mentions(texts, <<"single">>) THEN "Single"
        ELSE IF Mentions(texts, <<"double", "tandem">>) THEN "Double"
        ELSE IF Mentions(texts, <<"sup", "paddleboard">>) THEN "SUP"
        ELSE "Unlisted"

\* C8: on well-formed inputs detect_boat_type gives the strict-priority
\* reference over the lower-cased texts; "single" with "sup" gives Single,
\* "tandem" with "paddleboard" gives Double, empty input gives Unlisted.
C8_StrictPriority ==
    (call.result # "none" /\ WellFormed(call.notes, call.custom_fields, call.customers))
    => /\ call.result = Reference(call.notes, call.custom_fields, call.customers)
       /\ call.notes = Str("single + SUP") => call.result = "Single"
       /\ ( /\ call.notes = Str("Tandem kayak, paddleboard option")
            /\ call.custom_fields = <<>> /\ call.customers = <<>> )
          => call.result = "Double"
       /\ ( /\ call.notes \in {Str(""), Null}
            /\ call.custom_fields = <<>> /\ call.customers = <<>> )
          => call.result = "Unlisted"

\* C8, reached: a text with "tandem" and "paddleboard" was classified Double.
C8_TandemBeforePaddleboard ==
    /\ call.notes = Str("Tandem kayak, paddleboard option")
    /\ call.custom_fields = <<>> /\ call.customers = <<>>
    /\ call.result = "Double"

----------------------------------------------------------------------------
(* What holds of the deliveries that return: the conclusions of C4, C5, C9 *)
(* and C10 under the hypothesis that no call raised                        *)

\* C4 for the deliveries that returned
ReturnedMatchIncremented ==
    \A d \in Deliveries :
        ( /\ pc[d] = "done" /\ hist[d].solo /\ RowsRead(d)
          /\ FirstMatch(hist[d].gridBefore, MonthOf(d), BoatOf(d)) # 0 )
        => IncrementedOnly(d, FirstMatch(hist[d].gridBefore, MonthOf(d), BoatOf(d)))

\* C5 for the deliveries that returned
ReturnedNoMatchRecorded ==
    \A d \in Deliveries :
        ( /\ pc[d] = "done" /\ hist[d].solo /\ RowsRead(d) /\ hist[d].backupOpened
          /\ FirstMatch(hist[d].gridBefore, MonthOf(d), BoatOf(d)) = 0 )
        => OneNoMatchRecord(d)

\* C9 for the deliveries that returned
ReturnedUntrackedRejected ==
    \A d \in Deliveries :
        ( /\ pc[d] = "done" /\ ~Tracked(d)
          /\ hist[d].opened /\ hist[d].backupOpened )
        => RejectedUntracked(d)

\* C10 for the deliveries that returned
ReturnedInvalidDateRejected ==
    \A d \in Deliveries :
        ( /\ pc[d] = "done" /\ Tracked(d) /\ DateIsText(d) /\ ~DateParses(d)
          /\ hist[d].opened )
        => RejectedInvalidDate(d)

\* Some delivery returned after incrementing a count; some after finding no
\* matching row; some rejected as untracked; some for its start date
ReturnedEachWay ==
    /\ \E d \in Deliveries : pc[d] = "done" /\ Len(hist[d].writes) = 1
    /\ \E d \in Deliveries :
          /\ pc[d] = "done" /\ RowsRead(d) /\ Len(hist[d].writes) = 0
          /\ Len(hist[d].appended) = 1

=============================================================================
